---- MODULE Spec2Model ----
(***************************************************************************)
(* HBMP Survey Manager (Google Apps Script, Code.gs).                      *)
(*                                                                         *)
(* The spreadsheet holds three sheets (FormMeta, RespondentDetails,        *)
(* Questions).  Two handlers compile them into a Google Form: the menu     *)
(* command generateNewForm and the web-app endpoint doPost /               *)
(* handleGenerateForm.  A form is modelled by the sequence of items added  *)
(* to it, in the order of the add*Item calls.                              *)
(*                                                                         *)
(* Cell values.  getValues() returns Strings and Numbers.  Every cell is   *)
(* written here as a TLA+ string; a cell holding the Number 7 is written   *)
(* "#7" (NumberCell), so that a Number and the String "7" stay different   *)
(* values, as they are for !== and for Set membership in JavaScript.       *)
(* String concatenation is written as the tuple of the parts.              *)
(*                                                                         *)
(* Two requests served at the same time are followed call by call          *)
(* (SpecConcurrent), and the React component HbmpFormsGenerator that calls *)
(* the web app is modelled by its four states and its event handlers       *)
(* (SpecUi).                                                               *)
(***************************************************************************)
EXTENDS Integers, Sequences, FiniteSets

\* ------------------------------------------------------------------ bounds
\* Data rows in the RespondentDetails and Questions sheets together.
MaxRows == 3
\* Forms that FormApp.create makes in one behaviour.
MaxForms == 2
\* Calls of the API that the component starts in one behaviour.
MaxCalls == 3

\* --------------------------------------------------- JavaScript primitives
NumberCell == "#7"

\* A cell holding the Number 0 (written "#0").
ZeroCell == "#0"

\* Option1..Option5: the loop bound of the option columns.
NumOptionColumns == 5

\* value.toString()
ToString(v) ==
  CASE v = NumberCell -> "7"
    [] v = ZeroCell -> "0"
    [] OTHER -> v

\* String.prototype.trim, on the strings of the model
Trim(s) ==
  CASE s = " " -> ""
    [] s = " b " -> "b"
    [] OTHER -> s

\* String.prototype.toUpperCase, on the strings of the model
ToUpperCase(s) ==
  CASE s = "mcq" -> "MCQ"
    [] s = "Checkbox" -> "CHECKBOX"
    [] s = "dropdown" -> "DROPDOWN"
    [] s = "true" -> "TRUE"
    [] s = "yes" -> "YES"
    [] OTHER -> s

\* ToBoolean of a cell: the empty string and the Number 0 are the falsy cells
\* of the model
Truthy(v) == v # "" /\ v # ZeroCell

\* v || d
OrElse(v, d) == IF Truthy(v) THEN v ELSE d

\* parseFloat(cell) || 0 : NaN (a non-numeric cell) and 0 both give 0
ParseFloatOrZero(v) ==
  CASE v = "1" -> 1
    [] v = "2" -> 2
    [] v = "3" -> 3
    [] v = "4" -> 4
    [] OTHER -> 0

\* !cell || cell.toString().trim() === ''
IsBlankCell(v) == ~Truthy(v) \/ Trim(ToString(v)) = ""

\* Mutant of RequiredFlag: the cell is compared without toUpperCase.
RequiredFlagCaseSensitive(cell) == ToString(OrElse(cell, "")) = "TRUE"

\* (row[colIndices['Required']] || '').toString().toUpperCase() === 'TRUE'
RequiredFlag(cell) == ToUpperCase(ToString(OrElse(cell, ""))) = "TRUE"

\* The loop over Option1..Option5: the truthy cells that are non-empty after
\* trim, trimmed, in column order.
RECURSIVE CollectFrom(_, _)
CollectFrom(cells, n) ==
  IF n > NumOptionColumns THEN <<>>
  ELSE (IF Truthy(cells[n]) /\ Trim(ToString(cells[n])) # ""
          THEN <<Trim(ToString(cells[n]))>> ELSE <<>>)
       \o CollectFrom(cells, n + 1)

CollectOptions(cells) == CollectFrom(cells, 1)

\* ----------------------------------------------------------- sheet contents
NoOptions == <<"", "", "", "", "">>
SomeOptions == <<"a", "", " b ", "", "">>
\* The option cells of a rating scale that starts at the Number 0.
ScaleOptions == <<ZeroCell, "a", "", " b ", "">>

QRow(text, section, order, type, required, options) ==
  [QuestionText |-> text, Section |-> section, Order |-> order,
   Type |-> type, Required |-> required, Options |-> options]

\* The data rows a Questions sheet of the model may hold.
QuestionRows ==
  {QRow("Q", "", "1", "PARAGRAPH", "yes", SomeOptions),
   QRow("Q", "A", "1", "TEXT", "", NoOptions),
   QRow("Q", "A", "2", "Checkbox", "true", SomeOptions),
   QRow("Q", "B", "1", "TEXT", "TRUE", NoOptions),
   QRow("Q", NumberCell, "1", "TEXT", "", NoOptions),
   QRow("Q", "B", "", "FOO", "", NoOptions),
   QRow("Q", "", "2", "", "", SomeOptions),
   QRow("Q", "A", "1", "mcq", "", NoOptions),
   QRow(" ", "B", "1", "FOO", "", NoOptions)}

RRow(name, type, required, order, options) ==
  [FieldName |-> name, Type |-> type, Required |-> required,
   Order |-> order, Options |-> options]

\* The data rows a RespondentDetails sheet of the model may hold.
RespondentRows ==
  {RRow("Name", "TEXT", "TRUE", "1", NoOptions),
   RRow("Email", "", "", "1", SomeOptions),
   RRow("Branch", "dropdown", "true", "2", SomeOptions),
   RRow("City", "DROPDOWN", "", "1", NoOptions),
   RRow("Age", "NUMBER", "", "2", NoOptions),
   RRow("", "TEXT", "", "1", NoOptions)}

\* ensureSheetsExist: the rows of a RespondentDetails sheet it creates
DefaultRespondentRows ==
  <<RRow("Name", "TEXT", "TRUE", "1", NoOptions),
    RRow("Email", "TEXT", "TRUE", "2", NoOptions),
    RRow("Phone Number", "TEXT", "TRUE", "3", NoOptions),
    RRow("Branch", "DROPDOWN", "TRUE", "4", <<"CSE", "ECE", "ME", "CE", "EE">>)>>

\* ------------------------------------------------------ readRespondentDetails
\* The field object built from a row (row: the index of its sheet row, kept
\* to tell apart the objects of equal rows).
RespondentField(r, i) ==
  [row |-> i,
   fieldName |-> Trim(ToString(r.FieldName)),
   type |-> ToUpperCase(ToString(OrElse(r.Type, "TEXT"))),
   required |-> RequiredFlag(r.Required),
   order |-> ParseFloatOrZero(r.Order),
   options |-> <<>>]

\* Mutant of RespondentStep: a DROPDOWN field without options is pushed too.
RespondentStepKeepsEmptyDropdown(fields, r, i) ==
  IF IsBlankCell(r.FieldName) THEN fields
  ELSE LET field == RespondentField(r, i) IN
       IF field.type = "DROPDOWN"
         THEN Append(fields, [field EXCEPT !.options = CollectOptions(r.Options)])
         ELSE Append(fields, field)

\* One iteration of the row loop: fields is the array pushed to so far.
RespondentStep(fields, r, i) ==
  IF IsBlankCell(r.FieldName) THEN fields
  ELSE LET field == RespondentField(r, i) IN
       IF field.type = "DROPDOWN"
         THEN LET opts == CollectOptions(r.Options) IN
              IF Len(opts) = 0 THEN fields
              ELSE Append(fields, [field EXCEPT !.options = opts])
         ELSE Append(fields, field)

RECURSIVE RespondentScan(_, _, _)
RespondentScan(rows, i, fields) ==
  IF i > Len(rows) THEN fields
  ELSE RespondentScan(rows, i + 1, RespondentStep(fields, rows[i], i))

\* Mutant of RespondentCompare: the operands are swapped.
RespondentCompareDescending(a, b) == b.order - a.order

\* function(a, b) { return a.order - b.order; }
RespondentCompare(a, b) == a.order - b.order

\* Array.prototype.sort is stable: x goes behind every element it does not
\* compare below.
RespondentInsert(sorted, x) ==
  LET k == Cardinality({j \in 1..Len(sorted) : RespondentCompare(x, sorted[j]) >= 0})
  IN SubSeq(sorted, 1, k) \o <<x>> \o SubSeq(sorted, k + 1, Len(sorted))

RECURSIVE RespondentSort(_)
RespondentSort(fields) ==
  IF fields = <<>> THEN <<>>
  ELSE RespondentInsert(RespondentSort(SubSeq(fields, 1, Len(fields) - 1)),
                        fields[Len(fields)])

\* rows: the data rows of the sheet (without the header row); a missing sheet
\* and a sheet with the header only both give [].
readRespondentDetails(sheet) ==
  IF ~sheet.exists \/ Len(sheet.rows) = 0 THEN <<>>
  ELSE RespondentSort(RespondentScan(sheet.rows, 1, <<>>))

\* ------------------------------------------------ readQuestionsWithValidation
ChoiceTypes == {"MCQ", "CHECKBOX", "DROPDOWN"}

\* Mutant of validTypes: the empty type passes the check.
validTypesWithBlank == {"MCQ", "CHECKBOX", "DROPDOWN", "TEXT", "PARAGRAPH", ""}

validTypes == {"MCQ", "CHECKBOX", "DROPDOWN", "TEXT", "PARAGRAPH"}

\* The question object built from a row (row: the index of its sheet row).
Question(r, i) ==
  [row |-> i,
   section |-> OrElse(r.Section, ""),
   order |-> ParseFloatOrZero(r.Order),
   type |-> ToUpperCase(ToString(OrElse(r.Type, ""))),
   questionText |-> ToString(r.QuestionText),
   required |-> RequiredFlag(r.Required),
   options |-> <<>>]

EmptyStats == [sectionsCount |-> 0, questionsCount |-> 0, skippedCount |-> 0,
               errors |-> <<>>]

NoOptionsError(q) ==
  <<"Question \"", q.questionText, "\" has type ", q.type, " but no options">>

InvalidTypeError(q) ==
  <<"Question \"", q.questionText, "\" has invalid type: ", q.type>>

\* Mutant of Skip: a blank row is not counted.
SkipNotCounted(acc) == acc

\* Mutant of SkipWithError: the message goes to the front of errors.
SkipWithErrorInFront(acc, msg) ==
  [acc EXCEPT !.stats.skippedCount = @ + 1, !.stats.errors = <<msg>> \o @]

\* stats.skippedCount++ (and stats.errors.push(msg) for a message)
Skip(acc) == [acc EXCEPT !.stats.skippedCount = @ + 1]

SkipWithError(acc, msg) ==
  [acc EXCEPT !.stats.skippedCount = @ + 1, !.stats.errors = Append(@, msg)]

\* if (question.section && question.section !== '') sections.add(...)
TrackSection(sections, q) ==
  IF Truthy(q.section) /\ q.section # "" THEN sections \cup {q.section}
  ELSE sections

\* The type check and the push that end an iteration.
ValidateType(acc, q) ==
  IF q.type \notin validTypes THEN SkipWithError(acc, InvalidTypeError(q))
  ELSE [acc EXCEPT !.questions = Append(@, q)]

\* Mutant of ValidationStep: the section is tracked before the test for the
\* blank question text.
ValidationStepSectionFirst(acc, r, i) ==
  LET q == Question(r, i)
      tracked == [acc EXCEPT !.sections = TrackSection(@, q)]
  IN IF IsBlankCell(r.QuestionText) THEN Skip(tracked)
     ELSE IF q.type \in ChoiceTypes
       THEN LET opts == CollectOptions(r.Options) IN
            IF Len(opts) = 0 THEN SkipWithError(tracked, NoOptionsError(q))
            ELSE ValidateType(tracked, [q EXCEPT !.options = opts])
       ELSE ValidateType(tracked, q)

\* Mutant of ValidationStep: the continue after the no-options error is
\* missing, so the iteration goes on to the type check and the push.
ValidationStepNoContinue(acc, r, i) ==
  IF IsBlankCell(r.QuestionText) THEN Skip(acc)
  ELSE LET q == Question(r, i)
           tracked == [acc EXCEPT !.sections = TrackSection(@, q)]
       IN IF q.type \in ChoiceTypes
            THEN LET opts == CollectOptions(r.Options) IN
                 IF Len(opts) = 0
                   THEN ValidateType(SkipWithError(tracked, NoOptionsError(q)), q)
                   ELSE ValidateType(tracked, [q EXCEPT !.options = opts])
            ELSE ValidateType(tracked, q)

\* One iteration of the row loop; acc holds questions, sections and stats.
ValidationStep(acc, r, i) ==
  IF IsBlankCell(r.QuestionText) THEN Skip(acc)
  ELSE LET q == Question(r, i)
           tracked == [acc EXCEPT !.sections = TrackSection(@, q)]
       IN IF q.type \in ChoiceTypes
            THEN LET opts == CollectOptions(r.Options) IN
                 IF Len(opts) = 0 THEN SkipWithError(tracked, NoOptionsError(q))
                 ELSE ValidateType(tracked, [q EXCEPT !.options = opts])
            ELSE ValidateType(tracked, q)

RECURSIVE ValidationScan(_, _, _)
ValidationScan(rows, i, acc) ==
  IF i > Len(rows) THEN acc
  ELSE ValidationScan(rows, i + 1, ValidationStep(acc, rows[i], i))

\* ------------------------------------------------------ the question sort
\* String.prototype.localeCompare on the section names of the model, by their
\* collation order: digits before letters, "A" before "B".  The argument is
\* converted to a string.
CollationRank(s) ==
  CASE s = "7" -> 1
    [] s = "A" -> 2
    [] s = "B" -> 3
    [] OTHER -> 0

\* The receiver is converted too: the call with a Number as receiver throws
\* (CompareThrows), and a sort that did not throw has ordered the pair by the
\* call in the other direction.
localeCompare(a, b) ==
  IF CollationRank(ToString(a)) < CollationRank(ToString(b)) THEN -1
  ELSE IF CollationRank(ToString(a)) > CollationRank(ToString(b)) THEN 1
  ELSE 0

\* Mutant of QuestionCompare: the two tests for the empty section are left out.
QuestionCompareNoBlankRule(a, b) ==
  IF a.section # b.section
    THEN localeCompare(a.section, b.section)
    ELSE a.order - b.order

\* The comparator of questions.sort.
QuestionCompare(a, b) ==
  IF a.section # b.section
    THEN IF a.section = "" THEN 1
         ELSE IF b.section = "" THEN -1
         ELSE localeCompare(a.section, b.section)
    ELSE a.order - b.order

\* a.section.localeCompare is undefined when a.section is a Number: the call
\* throws a TypeError.
CompareThrows(a, b) ==
  /\ a.section # b.section
  /\ a.section # ""
  /\ b.section # ""
  /\ a.section = NumberCell

\* Which pairs sort hands to the comparator, and which of the two comes
\* first, is left to the engine: the sort can throw when some pair can.
SortCanThrow(qs) ==
  \E i, j \in 1..Len(qs) : i # j /\ CompareThrows(qs[i], qs[j])

QuestionInsert(sorted, x) ==
  LET k == Cardinality({j \in 1..Len(sorted) : QuestionCompare(x, sorted[j]) >= 0})
  IN SubSeq(sorted, 1, k) \o <<x>> \o SubSeq(sorted, k + 1, Len(sorted))

RECURSIVE QuestionSort(_)
QuestionSort(qs) ==
  IF qs = <<>> THEN <<>>
  ELSE QuestionInsert(QuestionSort(SubSeq(qs, 1, Len(qs) - 1)), qs[Len(qs)])

EmptyScan == [questions |-> <<>>, sections |-> {}, stats |-> EmptyStats]

\* readQuestionsWithValidation: the result when the sort does not throw.
readQuestionsWithValidation(sheet) ==
  IF ~sheet.exists
    THEN [questions |-> <<>>,
          stats |-> [EmptyStats EXCEPT !.errors = <<<<"Questions sheet not found">>>>]]
  ELSE IF Len(sheet.rows) = 0
    THEN [questions |-> <<>>,
          stats |-> [EmptyStats EXCEPT
                       !.errors = <<<<"No question rows found in Questions sheet">>>>]]
  ELSE LET acc == ValidationScan(sheet.rows, 1, EmptyScan)
           sorted == QuestionSort(acc.questions)
       IN [questions |-> sorted,
           stats |-> [acc.stats EXCEPT !.sectionsCount = Cardinality(acc.sections),
                                       !.questionsCount = Len(sorted)]]

\* The questions handed to sort by readQuestionsWithValidation.
ValidatedBeforeSort(sheet) ==
  IF ~sheet.exists \/ Len(sheet.rows) = 0 THEN <<>>
  ELSE ValidationScan(sheet.rows, 1, EmptyScan).questions

\* -------------------------------------------------------------- readQuestions
\* One iteration of the row loop of the menu's reader: no type check.
QuestionStep(questions, r, i) ==
  IF IsBlankCell(r.QuestionText) THEN questions
  ELSE LET q == Question(r, i) IN
       IF q.type \in ChoiceTypes
         THEN LET opts == CollectOptions(r.Options) IN
              IF Len(opts) = 0 THEN questions
              ELSE Append(questions, [q EXCEPT !.options = opts])
         ELSE Append(questions, q)

RECURSIVE QuestionScan(_, _, _)
QuestionScan(rows, i, questions) ==
  IF i > Len(rows) THEN questions
  ELSE QuestionScan(rows, i + 1, QuestionStep(questions, rows[i], i))

\* The questions handed to sort by readQuestions.
ReadBeforeSort(sheet) ==
  IF Len(sheet.rows) = 0 THEN <<>> ELSE QuestionScan(sheet.rows, 1, <<>>)

\* readQuestions: the result when the sort does not throw.
readQuestions(sheet) == QuestionSort(ReadBeforeSort(sheet))

\* ------------------------------------------------------------------ buildForm
\* An item of the form.  src names the record the item was added for
\* (<<"respondent", row>>, <<"question", row>>) or <<"pageBreak", 0>>.
PageBreakItem(title, helpText) ==
  [kind |-> "PAGE_BREAK", title |-> title, helpText |-> helpText,
   required |-> FALSE, choices |-> <<>>, src |-> <<"pageBreak", 0>>]

InputItem(kind, title, required, choices, src) ==
  [kind |-> kind, title |-> title, helpText |-> <<>>,
   required |-> required, choices |-> choices, src |-> src]

RespondentInformationBreak ==
  PageBreakItem("Respondent Information",
    <<"Please provide your details before proceeding to the survey questions.">>)

SurveyQuestionsBreak ==
  PageBreakItem("Survey Questions", <<"Please answer the following questions.">>)

\* switch (field.type): the item added for a respondent field, none for an
\* unknown type.
RespondentItems(field) ==
  CASE field.type = "TEXT" ->
         <<InputItem("TEXT", field.fieldName, field.required, <<>>,
                     <<"respondent", field.row>>)>>
    [] field.type = "PARAGRAPH" ->
         <<InputItem("PARAGRAPH_TEXT", field.fieldName, field.required, <<>>,
                     <<"respondent", field.row>>)>>
    [] field.type = "DROPDOWN" ->
         <<InputItem("LIST", field.fieldName, field.required, field.options,
                     <<"respondent", field.row>>)>>
    [] OTHER -> <<>>

RECURSIVE RespondentLoop(_, _)
RespondentLoop(respondentDetails, rd) ==
  IF rd > Len(respondentDetails) THEN <<>>
  ELSE RespondentItems(respondentDetails[rd])
       \o RespondentLoop(respondentDetails, rd + 1)

\* if (respondentDetails && respondentDetails.length > 0) { ... }
RespondentSection(respondentDetails) ==
  IF Len(respondentDetails) > 0
    THEN <<RespondentInformationBreak>>
         \o RespondentLoop(respondentDetails, 1)
         \o <<SurveyQuestionsBreak>>
    ELSE <<>>

\* Mutant of SectionChanged: the tests for an empty section are left out.
SectionChangedBlankToo(q, currentSection) == q.section # currentSection

\* Mutant of SectionChanged: the comparison with currentSection is left out.
SectionChangedEveryQuestion(q, currentSection) ==
  Truthy(q.section) /\ q.section # ""

\* q.section && q.section !== '' && q.section !== currentSection
\* (currentSection starts as null, written "#null": no cell holds it)
SectionChanged(q, currentSection) ==
  Truthy(q.section) /\ q.section # "" /\ q.section # currentSection

SectionBreak(q) == PageBreakItem(q.section, <<"Section: ", q.section>>)

\* switch (q.type): the item added for a question, none for an unknown type.
QuestionItems(q) ==
  CASE q.type = "MCQ" ->
         <<InputItem("MULTIPLE_CHOICE", q.questionText, q.required, q.options,
                     <<"question", q.row>>)>>
    [] q.type = "CHECKBOX" ->
         <<InputItem("CHECKBOX", q.questionText, q.required, q.options,
                     <<"question", q.row>>)>>
    [] q.type = "DROPDOWN" ->
         <<InputItem("LIST", q.questionText, q.required, q.options,
                     <<"question", q.row>>)>>
    [] q.type = "TEXT" ->
         <<InputItem("TEXT", q.questionText, q.required, <<>>,
                     <<"question", q.row>>)>>
    [] q.type = "PARAGRAPH" ->
         <<InputItem("PARAGRAPH_TEXT", q.questionText, q.required, <<>>,
                     <<"question", q.row>>)>>
    [] OTHER -> <<>>

RECURSIVE QuestionLoop(_, _, _)
QuestionLoop(questions, i, currentSection) ==
  IF i > Len(questions) THEN <<>>
  ELSE LET q == questions[i] IN
       IF SectionChanged(q, currentSection)
         THEN <<SectionBreak(q)>> \o QuestionItems(q)
              \o QuestionLoop(questions, i + 1, q.section)
         ELSE QuestionItems(q) \o QuestionLoop(questions, i + 1, currentSection)

\* Mutant of buildForm: the question loop runs before the respondent section.
buildFormQuestionsFirst(respondentDetails, questions) ==
  QuestionLoop(questions, 1, "#null") \o RespondentSection(respondentDetails)

\* The items buildForm adds to the form it creates, in the order of the calls.
buildForm(respondentDetails, questions) ==
  RespondentSection(respondentDetails) \o QuestionLoop(questions, 1, "#null")

\* ------------------------------------------------------------------- FormMeta
MetaRow(key, value) == [key |-> key, value |-> value]

\* ensureSheetsExist: the rows of a FormMeta sheet it creates
defaultMeta ==
  <<MetaRow("FormTitle", "HBMP Survey Form"),
    MetaRow("FormDescription", "Survey form generated from Question Bank"),
    MetaRow("FormId", ""),
    MetaRow("FormEditUrl", ""),
    MetaRow("FormPublishedUrl", ""),
    MetaRow("Version", "1"),
    MetaRow("CreatedAt", ""),
    MetaRow("ResponseSpreadsheetId", ""),
    MetaRow("ResponseSheetName", "")>>

AbsentSheet == [exists |-> FALSE, rows |-> <<>>]

Sheet(rows) == [exists |-> TRUE, rows |-> rows]

\* Mutant of EnsureMeta: the test for the missing sheet is left out, so the
\* default rows are written on every call.
EnsureMetaAlways(sheet) == Sheet(defaultMeta)

\* ensureSheetsExist, sheet by sheet: a missing sheet is inserted with its
\* header row and default rows, an existing one is left as it is.
EnsureMeta(sheet) == IF sheet.exists THEN sheet ELSE Sheet(defaultMeta)

EnsureRespondent(sheet) ==
  IF sheet.exists THEN sheet ELSE Sheet(DefaultRespondentRows)

EnsureQuestions(sheet) == IF sheet.exists THEN sheet ELSE Sheet(<<>>)

\* The decimal numerals of the model, for parseInt and Number.toString.
Numerals == <<"0", "1", "2", "3", "4", "5", "6", "7", "8", "9", "10", "11", "12">>

IsNumeral(s) == \E n \in 1..Len(Numerals) : Numerals[n] = s

\* parseInt(s) of a numeral
ParseInt(s) == (CHOOSE n \in 1..Len(Numerals) : Numerals[n] = s) - 1

\* n.toString()
NumberToString(n) == IF n + 1 \in 1..Len(Numerals) THEN Numerals[n + 1] ELSE "NaN"

\* Mutant of NextVersion: the version is not incremented.
NextVersionUnchanged(version) == version

\* (parseInt(meta.version) + 1).toString(); parseInt of a non-numeral is NaN
NextVersion(version) ==
  IF IsNumeral(version) THEN NumberToString(ParseInt(version) + 1) ELSE "NaN"

\* Mutant of ReadMetaRow: the test value !== '' is left out.
ReadMetaRowKeepsBlank(meta, r) ==
  IF Truthy(r.key)
    THEN CASE r.key = "FormTitle" -> [meta EXCEPT !.formTitle = ToString(r.value)]
           [] r.key = "FormDescription" ->
                [meta EXCEPT !.formDescription = ToString(r.value)]
           [] r.key = "Version" -> [meta EXCEPT !.version = ToString(r.value)]
           [] OTHER -> meta
    ELSE meta

\* One iteration of readMeta's row loop.
ReadMetaRow(meta, r) ==
  IF Truthy(r.key) /\ r.value # ""
    THEN CASE r.key = "FormTitle" -> [meta EXCEPT !.formTitle = ToString(r.value)]
           [] r.key = "FormDescription" ->
                [meta EXCEPT !.formDescription = ToString(r.value)]
           [] r.key = "Version" -> [meta EXCEPT !.version = ToString(r.value)]
           [] OTHER -> meta
    ELSE meta

RECURSIVE ReadMetaRows(_, _, _)
ReadMetaRows(rows, i, meta) ==
  IF i > Len(rows) THEN meta
  ELSE ReadMetaRows(rows, i + 1, ReadMetaRow(meta, rows[i]))

readMeta(sheet) ==
  ReadMetaRows(sheet.rows, 1,
    [formTitle |-> "HBMP Survey Form",
     formDescription |-> "Survey form generated from Question Bank",
     version |-> "1",
     createdAt |-> ""])

\* The names of the forms FormApp.create makes and the instants of the clock.
FormIds == <<"form1", "form2", "form3", "form4">>
EditUrls == <<"edit1", "edit2", "edit3", "edit4">>
PublishedUrls == <<"view1", "view2", "view3", "view4">>
Instants == <<"t1", "t2", "t3", "t4">>

NoFormData ==
  [formId |-> "", editUrl |-> "", publishedUrl |-> "", version |-> "",
   createdAt |-> "", responseSpreadsheetId |-> "", responseSheetName |-> ""]

\* The object buildForm returns for the n-th form created.
FormData(meta, n) ==
  [formId |-> FormIds[n], editUrl |-> EditUrls[n],
   publishedUrl |-> PublishedUrls[n],
   version |-> NextVersion(meta.version),
   createdAt |-> Instants[n],
   responseSpreadsheetId |-> "spreadsheet",
   responseSheetName |-> "Form Responses 1"]

\* switch (key) of writeMeta: the value written to the row's cell
WriteMetaRow(r, formData) ==
  CASE r.key = "FormId" -> MetaRow(r.key, formData.formId)
    [] r.key = "FormEditUrl" -> MetaRow(r.key, formData.editUrl)
    [] r.key = "FormPublishedUrl" -> MetaRow(r.key, formData.publishedUrl)
    [] r.key = "Version" -> MetaRow(r.key, formData.version)
    [] r.key = "CreatedAt" -> MetaRow(r.key, formData.createdAt)
    [] r.key = "ResponseSpreadsheetId" -> MetaRow(r.key, formData.responseSpreadsheetId)
    [] r.key = "ResponseSheetName" -> MetaRow(r.key, formData.responseSheetName)
    [] OTHER -> r

writeMeta(sheet, formData) ==
  [sheet EXCEPT !.rows = [i \in 1..Len(sheet.rows) |-> WriteMetaRow(sheet.rows[i], formData)]]

\* ---------------------------------------------------------------------- state
VARIABLES
  metaSheet,         \* the FormMeta sheet: [exists, rows of key/value]
  respondentSheet,   \* the RespondentDetails sheet: [exists, data rows]
  questionsSheet,    \* the Questions sheet: [exists, data rows]
  scriptSecret,      \* script property HBMP_SECRET ("" when it is not set)
  formCount,         \* forms made by FormApp.create so far
  lastCall,          \* what the last handler run read, built and answered
  running,           \* the executions of doPost that run side by side
  secretToken,       \* HbmpFormsGenerator: useState('')
  loading,           \* HbmpFormsGenerator: useState(false)
  result,            \* HbmpFormsGenerator: useState(null); <<>> is null, <<data>> a value
  error,             \* HbmpFormsGenerator: useState(null); <<>> is null, <<message>> a value
  inFlight,          \* calls of callAPI that wait for their fetch
  started            \* calls of callAPI that went past the token check so far

\* The state of the spreadsheet and the script, and of the component.
serverVars == <<metaSheet, respondentSheet, questionsSheet, scriptSecret, formCount,
                lastCall, running>>

uiVars == <<secretToken, loading, result, error, inFlight, started>>

vars == <<metaSheet, respondentSheet, questionsSheet, scriptSecret, formCount,
          lastCall, running, secretToken, loading, result, error, inFlight, started>>

Secret == "s3cret"

NoCall ==
  [handler |-> "none", outcome |-> "none", dryRun |-> FALSE,
   respondentDetails |-> <<>>, questions |-> <<>>, stats |-> EmptyStats,
   built |-> FALSE, form |-> <<>>, formData |-> NoFormData]

\* Two requests that the web app serves at the same time.
Executions == {1, 2}

\* An execution of doPost: pc is its place in handleGenerateForm, meta what
\* its readMeta returned, formData what its buildForm returned, row the row
\* of FormMeta that its writeMeta comes to next.
Execution(pc, dryRun) ==
  [pc |-> pc, dryRun |-> dryRun, version |-> "", formData |-> NoFormData,
   row |-> 0, outcome |-> "none"]

\* No request is being served step by step.
NoExecutions == [e \in Executions |-> Execution("idle", FALSE)]

\* The component as it is mounted: the initial values of its four states,
\* and no call made.
Null == <<>>

Mounted ==
  /\ secretToken = ""
  /\ loading = FALSE
  /\ result = Null
  /\ error = Null
  /\ inFlight = <<>>
  /\ started = 0

\* A spreadsheet whose Questions sheet holds up to MaxRows rows and whose
\* RespondentDetails sheet holds none.  A sheet that holds no rows may also be
\* missing, and HBMP_SECRET may be unset.
Init ==
  \E nq \in 0..MaxRows :
    /\ \E qrows \in [1..nq -> QuestionRows] :
         questionsSheet \in {Sheet(qrows)} \cup (IF nq = 0 THEN {AbsentSheet} ELSE {})
    /\ respondentSheet \in {Sheet(<<>>)} \cup (IF nq <= 1 THEN {AbsentSheet} ELSE {})
    /\ metaSheet \in {Sheet(defaultMeta)} \cup (IF nq = 0 THEN {AbsentSheet} ELSE {})
    /\ scriptSecret \in {Secret} \cup (IF nq <= 1 THEN {""} ELSE {})
    /\ formCount = 0
    /\ lastCall = NoCall
    /\ running = NoExecutions
    /\ Mounted

\* The question rows that go with the respondent rows of InitRespondent.
FewQuestionRows ==
  {QRow("Q", "", "1", "PARAGRAPH", "yes", SomeOptions),
   QRow("Q", "A", "2", "Checkbox", "true", ScaleOptions),
   QRow("Q", "A", "1", "mcq", "", NoOptions),
   QRow("Age?", "", "1", "TEXT", "TRUE", NoOptions),
   QRow(" ", "B", "1", "FOO", "", NoOptions),
   QRow("", "B", "1", "mcq", "", NoOptions)}

\* A spreadsheet whose two data sheets hold up to MaxRows rows together.
InitRespondent ==
  \E nq, nr \in 0..MaxRows :
    /\ nq + nr <= MaxRows
    /\ \E qrows \in [1..nq -> FewQuestionRows], rrows \in [1..nr -> RespondentRows] :
         /\ questionsSheet = Sheet(qrows)
         /\ respondentSheet = Sheet(rrows)
    /\ metaSheet = Sheet(defaultMeta)
    /\ scriptSecret = Secret
    /\ formCount = 0
    /\ lastCall = NoCall
    /\ running = NoExecutions
    /\ Mounted

\* The rows an edited FormMeta sheet of the model may hold: each of the
\* FormTitle, FormDescription and Version rows is missing, blank or filled
\* (the Version as a String or as a Number), and the sheet holds either the
\* rows that writeMeta fills or a row with a key that readMeta does not know.
MetaTitleRows ==
  {<<>>, <<MetaRow("FormTitle", "")>>, <<MetaRow("FormTitle", " ")>>,
   <<MetaRow("FormTitle", "My Survey")>>}

MetaDescriptionRows ==
  {<<>>, <<MetaRow("FormDescription", "")>>, <<MetaRow("FormDescription", "About")>>}

MetaVersionRows ==
  {<<>>, <<MetaRow("Version", "")>>, <<MetaRow("Version", "5")>>,
   <<MetaRow("Version", NumberCell)>>}

MetaOtherRows ==
  {<<MetaRow("formtitle", "Other")>>,
   <<MetaRow("FormId", ""), MetaRow("FormEditUrl", ""),
     MetaRow("FormPublishedUrl", ""), MetaRow("CreatedAt", "")>>}

\* The Questions sheets that go with the FormMeta sheets of InitMeta.
MetaQuestionSheets ==
  {Sheet(<<>>), Sheet(<<QRow("Q", "", "1", "PARAGRAPH", "yes", SomeOptions)>>)}

\* A spreadsheet with an edited FormMeta sheet; HBMP_SECRET may be unset
\* when the Questions sheet holds no rows.
InitMeta ==
  /\ \E t \in MetaTitleRows, d \in MetaDescriptionRows,
        v \in MetaVersionRows, o \in MetaOtherRows :
       metaSheet = Sheet(t \o d \o v \o o)
  /\ questionsSheet \in MetaQuestionSheets
  /\ respondentSheet = Sheet(<<>>)
  /\ scriptSecret \in {Secret} \cup (IF Len(questionsSheet.rows) = 0 THEN {""} ELSE {})
  /\ formCount = 0
  /\ lastCall = NoCall
  /\ running = NoExecutions
  /\ Mounted

\* Two requests with the right secret arrive together, each with or without
\* dryRun, at a spreadsheet with the default FormMeta rows.
InitConcurrent ==
  /\ metaSheet = Sheet(defaultMeta)
  /\ questionsSheet \in MetaQuestionSheets
  /\ respondentSheet = Sheet(<<>>)
  /\ scriptSecret = Secret
  /\ formCount = 0
  /\ lastCall = NoCall
  /\ running \in [Executions -> {Execution("start", FALSE), Execution("start", TRUE)}]
  /\ Mounted

\* ------------------------------------------------------------ generateNewForm
\* The menu command.  threw: questions.sort threw, which the handler's catch
\* turns into the error alert.  The sheets ensureSheetsExist made stay.
generateNewForm(threw) ==
  LET meta1 == EnsureMeta(metaSheet)
      resp1 == EnsureRespondent(respondentSheet)
      ques1 == EnsureQuestions(questionsSheet)
      meta == readMeta(meta1)
      respondentDetails == readRespondentDetails(resp1)
      unsorted == ReadBeforeSort(ques1)
      questions == readQuestions(ques1)
      formData == FormData(meta, formCount + 1)
      call == [NoCall EXCEPT !.handler = "generateNewForm",
                             !.respondentDetails = respondentDetails]
  IN /\ threw => SortCanThrow(unsorted)
     /\ respondentSheet' = resp1
     /\ questionsSheet' = ques1
     /\ UNCHANGED scriptSecret
     /\ IF threw
          THEN /\ lastCall' = [call EXCEPT !.outcome = "alertError"]
               /\ metaSheet' = meta1
               /\ UNCHANGED formCount
        ELSE IF Len(questions) = 0
          THEN /\ lastCall' = [call EXCEPT !.outcome = "alertNoQuestions"]
               /\ metaSheet' = meta1
               /\ UNCHANGED formCount
        ELSE /\ formCount' = formCount + 1
             /\ metaSheet' = writeMeta(meta1, formData)
             /\ lastCall' = [call EXCEPT !.outcome = "alertSuccess",
                                         !.questions = questions,
                                         !.built = TRUE,
                                         !.form = buildForm(respondentDetails, questions),
                                         !.formData = formData]

\* --------------------------------------------------------------------- doPost
\* requestData.dryRun === true || requestData.dryRun === 'true'
\* ("#true" is the boolean true, "true" the string)
IsDryRun(requestData) == requestData.dryRun = "#true" \/ requestData.dryRun = "true"

ApiRequest(json, secret, action, dryRun) ==
  [json |-> json, secret |-> secret, action |-> action, dryRun |-> dryRun]

\* The request bodies of the model: a body that is not JSON, and JSON that
\* asks for generateForm, with the secret missing, wrong or right and dryRun
\* true, 'true', false or missing.
Requests ==
  {ApiRequest(FALSE, "", "", ""),
   ApiRequest(TRUE, "", "generateForm", ""),
   ApiRequest(TRUE, "wrong", "generateForm", "#true"),
   ApiRequest(TRUE, Secret, "generateForm", "#true"),
   ApiRequest(TRUE, Secret, "generateForm", "true"),
   ApiRequest(TRUE, Secret, "generateForm", "#false"),
   ApiRequest(TRUE, Secret, "generateForm", "")}

\* Mutant of handleGenerateForm: the respondent rows that were not read into
\* a field are counted in stats.skippedCount.
handleGenerateFormCountsFields(requestData, threw) ==
  LET dryRun == IsDryRun(requestData)
      meta1 == EnsureMeta(metaSheet)
      resp1 == EnsureRespondent(respondentSheet)
      ques1 == EnsureQuestions(questionsSheet)
      meta == readMeta(meta1)
      respondentDetails == readRespondentDetails(resp1)
      unsorted == ValidatedBeforeSort(ques1)
      questionsResult == readQuestionsWithValidation(ques1)
      questions == questionsResult.questions
      stats == [questionsResult.stats EXCEPT
                  !.skippedCount = @ + Len(resp1.rows) - Len(respondentDetails)]
      formData == FormData(meta, formCount + 1)
      call == [NoCall EXCEPT !.handler = "doPost", !.dryRun = dryRun,
                             !.respondentDetails = respondentDetails]
  IN /\ threw => SortCanThrow(unsorted)
     /\ respondentSheet' = resp1
     /\ questionsSheet' = ques1
     /\ UNCHANGED scriptSecret
     /\ IF threw
          THEN /\ lastCall' = [call EXCEPT !.outcome = "failed"]
               /\ metaSheet' = meta1
               /\ UNCHANGED formCount
        ELSE IF Len(questions) = 0 /\ stats.skippedCount = 0
          THEN /\ lastCall' = [call EXCEPT !.outcome = "noQuestions", !.stats = stats]
               /\ metaSheet' = meta1
               /\ UNCHANGED formCount
        ELSE IF dryRun
          THEN /\ lastCall' = [call EXCEPT !.outcome = "dryRun", !.stats = stats,
                                           !.questions = questions]
               /\ metaSheet' = meta1
               /\ UNCHANGED formCount
        ELSE /\ formCount' = formCount + 1
             /\ metaSheet' = writeMeta(meta1, formData)
             /\ lastCall' = [call EXCEPT !.outcome = "created", !.stats = stats,
                                         !.questions = questions,
                                         !.built = TRUE,
                                         !.form = buildForm(respondentDetails, questions),
                                         !.formData = formData]

\* handleGenerateForm.  threw: questions.sort threw, which the handler's catch
\* turns into the 500 answer.
handleGenerateForm(requestData, threw) ==
  LET dryRun == IsDryRun(requestData)
      meta1 == EnsureMeta(metaSheet)
      resp1 == EnsureRespondent(respondentSheet)
      ques1 == EnsureQuestions(questionsSheet)
      meta == readMeta(meta1)
      respondentDetails == readRespondentDetails(resp1)
      unsorted == ValidatedBeforeSort(ques1)
      questionsResult == readQuestionsWithValidation(ques1)
      questions == questionsResult.questions
      stats == questionsResult.stats
      formData == FormData(meta, formCount + 1)
      call == [NoCall EXCEPT !.handler = "doPost", !.dryRun = dryRun,
                             !.respondentDetails = respondentDetails]
  IN /\ threw => SortCanThrow(unsorted)
     /\ respondentSheet' = resp1
     /\ questionsSheet' = ques1
     /\ UNCHANGED scriptSecret
     /\ IF threw
          THEN /\ lastCall' = [call EXCEPT !.outcome = "failed"]
               /\ metaSheet' = meta1
               /\ UNCHANGED formCount
        ELSE IF Len(questions) = 0 /\ stats.skippedCount = 0
          THEN /\ lastCall' = [call EXCEPT !.outcome = "noQuestions", !.stats = stats]
               /\ metaSheet' = meta1
               /\ UNCHANGED formCount
        ELSE IF dryRun
          THEN /\ lastCall' = [call EXCEPT !.outcome = "dryRun", !.stats = stats,
                                           !.questions = questions]
               /\ metaSheet' = meta1
               /\ UNCHANGED formCount
        ELSE /\ formCount' = formCount + 1
             /\ metaSheet' = writeMeta(meta1, formData)
             /\ lastCall' = [call EXCEPT !.outcome = "created", !.stats = stats,
                                         !.questions = questions,
                                         !.built = TRUE,
                                         !.form = buildForm(respondentDetails, questions),
                                         !.formData = formData]

\* An answer of doPost that is given before handleGenerateForm is reached.
Refuse(outcome) ==
  /\ lastCall' = [NoCall EXCEPT !.handler = "doPost", !.outcome = outcome]
  /\ UNCHANGED <<metaSheet, respondentSheet, questionsSheet, scriptSecret, formCount>>

\* Mutant of doPost: the provided secret is not compared with HBMP_SECRET.
doPostAnySecret(requestData, threw) ==
  LET providedSecret == requestData.secret IN
  IF ~requestData.json THEN ~threw /\ Refuse("invalidJson")
  ELSE IF ~Truthy(scriptSecret) THEN ~threw /\ Refuse("configError")
  ELSE IF ~Truthy(providedSecret) THEN ~threw /\ Refuse("unauthorized")
  ELSE IF requestData.action = "generateForm"
    THEN handleGenerateForm(requestData, threw)
  ELSE ~threw /\ Refuse("unknownAction")

doPost(requestData, threw) ==
  LET providedSecret == requestData.secret IN
  IF ~requestData.json THEN ~threw /\ Refuse("invalidJson")
  ELSE IF ~Truthy(scriptSecret) THEN ~threw /\ Refuse("configError")
  ELSE IF ~Truthy(providedSecret) \/ providedSecret # scriptSecret
    THEN ~threw /\ Refuse("unauthorized")
  ELSE IF requestData.action = "generateForm"
    THEN handleGenerateForm(requestData, threw)
  ELSE ~threw /\ Refuse("unknownAction")

\* The handlers run until MaxForms forms have been made.
MenuGenerate ==
  /\ formCount < MaxForms
  /\ \E threw \in BOOLEAN : generateNewForm(threw)
  /\ UNCHANGED running
  /\ UNCHANGED uiVars

ApiPost ==
  /\ formCount < MaxForms
  /\ \E requestData \in Requests, threw \in BOOLEAN : doPost(requestData, threw)
  /\ UNCHANGED running
  /\ UNCHANGED uiVars

Next == MenuGenerate \/ ApiPost

\* ------------------------------------------- handleGenerateForm, step by step
\* The script takes no lock (no LockService), so the calls that two
\* executions make to the spreadsheet interleave.  The sheets of
\* InitConcurrent hold no Number in a Section cell: the sort does not throw.

\* ensureSheetsExist up to the dry-run return: the reads of the three sheets.
ExecRead(e) ==
  LET meta1 == EnsureMeta(metaSheet)
      resp1 == EnsureRespondent(respondentSheet)
      ques1 == EnsureQuestions(questionsSheet)
      meta == readMeta(meta1)
      questionsResult == readQuestionsWithValidation(ques1)
      questions == questionsResult.questions
      stats == questionsResult.stats
  IN /\ running[e].pc = "start"
     /\ metaSheet' = meta1
     /\ respondentSheet' = resp1
     /\ questionsSheet' = ques1
     /\ running' =
          [running EXCEPT ![e] =
             IF Len(questions) = 0 /\ stats.skippedCount = 0
               THEN [@ EXCEPT !.pc = "done", !.outcome = "noQuestions"]
             ELSE IF @.dryRun
               THEN [@ EXCEPT !.pc = "done", !.outcome = "dryRun"]
             ELSE [@ EXCEPT !.pc = "read", !.version = meta.version]]
     /\ UNCHANGED <<scriptSecret, formCount, lastCall>>

\* buildForm: FormApp.create, the items, and the object it returns.
ExecBuild(e) ==
  /\ running[e].pc = "read"
  /\ formCount' = formCount + 1
  /\ running' =
       [running EXCEPT ![e] =
          [@ EXCEPT !.pc = "write",
                    !.formData = FormData([version |-> running[e].version],
                                          formCount + 1),
                    !.row = 1]]
  /\ UNCHANGED <<metaSheet, respondentSheet, questionsSheet, scriptSecret, lastCall>>

\* writeMeta: one iteration of its loop (one setValue), or its end and the
\* answer.
ExecWrite(e) ==
  /\ running[e].pc = "write"
  /\ IF running[e].row > Len(metaSheet.rows)
       THEN /\ running' = [running EXCEPT ![e] = [@ EXCEPT !.pc = "done",
                                                            !.outcome = "created"]]
            /\ UNCHANGED metaSheet
       ELSE /\ metaSheet' =
                 [metaSheet EXCEPT
                    !.rows[running[e].row] = WriteMetaRow(@, running[e].formData)]
            /\ running' = [running EXCEPT ![e] = [@ EXCEPT !.row = @ + 1]]
  /\ UNCHANGED <<respondentSheet, questionsSheet, scriptSecret, formCount, lastCall>>

NextConcurrent ==
  /\ \E e \in Executions : ExecRead(e) \/ ExecBuild(e) \/ ExecWrite(e)
  /\ UNCHANGED uiVars

Spec == Init /\ [][Next]_vars

SpecRespondent == InitRespondent /\ [][Next]_vars

SpecMeta == InitMeta /\ [][Next]_vars

SpecConcurrent == InitConcurrent /\ [][NextConcurrent]_vars

\* --------------------------------------------------------- HbmpFormsGenerator
\* The React component.  A state setter takes effect with the end of the
\* task that calls it: no event of the user comes between two setters of
\* one task.

\* What the user types into the token input.
Tokens == {"", " ", Secret, "wrong"}

Some(v) == <<v>>

\* The JSON that the web app and the proxy answer with.
Data(ok, dryRun, message) == [ok |-> ok, dryRun |-> dryRun, message |-> message]

\* What fetch and response.json() come to: a rejection with the message of
\* its error, a body that is not JSON (response.json() rejects), or JSON
\* with response.ok and the status line of the response.
Rejection(message) ==
  [rejects |-> TRUE, json |-> FALSE, ok |-> FALSE, statusLine |-> "",
   message |-> message, data |-> Data(FALSE, FALSE, "")]

NonJson(ok, statusLine) ==
  [rejects |-> FALSE, json |-> FALSE, ok |-> ok, statusLine |-> statusLine,
   message |-> "Unexpected token < in JSON at position 0",
   data |-> Data(FALSE, FALSE, "")]

Json(ok, statusLine, data) ==
  [rejects |-> FALSE, json |-> TRUE, ok |-> ok, statusLine |-> statusLine,
   message |-> "", data |-> data]

\* The outcomes of a call: the answers of handleGenerateForm and doPost, an
\* error answer of the proxy, an error answer without a message property, a
\* page that is not JSON, and a fetch that rejects.
Responses(dryRun) ==
  {Json(TRUE, "HTTP 200: OK",
        IF dryRun THEN Data(TRUE, TRUE, "Dry run completed. Validation successful.")
        ELSE Data(TRUE, FALSE, "Form created successfully")),
   Json(TRUE, "HTTP 200: OK", Data(FALSE, FALSE, "Unauthorized")),
   Json(FALSE, "HTTP 500: Internal Server Error",
        Data(FALSE, FALSE, "Google Apps Script returned invalid response")),
   Json(FALSE, "HTTP 504: Gateway Timeout", Data(FALSE, FALSE, "")),
   NonJson(TRUE, "HTTP 200: OK"),
   Rejection("Failed to fetch"),
   Rejection("")}

\* callAPI up to its first await.
callAPI(dryRun) ==
  IF Trim(secretToken) = ""
    THEN /\ error' = Some("Please enter the secret token")
         /\ UNCHANGED <<secretToken, loading, result, inFlight, started>>
    ELSE /\ started < MaxCalls
         /\ loading' = TRUE
         /\ error' = Null
         /\ result' = Null
         /\ inFlight' = Append(inFlight, [dryRun |-> dryRun, secret |-> secretToken])
         /\ started' = started + 1
         /\ UNCHANGED secretToken

\* The message of the Error thrown for an answer that is not ok.
NotOkMessage(r) == OrElse(r.data.message, r.statusLine)

\* callAPI from the await on, for the i-th waiting call and its outcome r:
\* try, catch and finally.
callAPIResume(i, r) ==
  /\ IF r.rejects \/ ~r.json
       THEN /\ error' = Some(OrElse(r.message, "Failed to call API"))
            /\ UNCHANGED result
     ELSE IF ~r.ok \/ ~r.data.ok
       THEN /\ error' = Some(OrElse(NotOkMessage(r), "Failed to call API"))
            /\ UNCHANGED result
     ELSE /\ result' = Some(r.data)
          /\ UNCHANGED error
  /\ loading' = FALSE
  /\ inFlight' = SubSeq(inFlight, 1, i - 1) \o SubSeq(inFlight, i + 1, Len(inFlight))
  /\ UNCHANGED <<secretToken, started>>

\* onChange of the input (disabled while loading)
onChange ==
  /\ ~loading
  /\ \E t \in Tokens : secretToken' = t
  /\ UNCHANGED <<loading, result, error, inFlight, started>>
  /\ UNCHANGED serverVars

\* The button 'Validate (Dry Run)' (disabled while loading)
handleDryRun ==
  /\ ~loading
  /\ callAPI(TRUE)
  /\ UNCHANGED serverVars

\* Mutant of handleGenerate: the button is not disabled while loading.
handleGenerateWhileLoading ==
  /\ callAPI(FALSE)
  /\ UNCHANGED serverVars

\* The button 'Generate Form' (disabled while loading)
handleGenerate ==
  /\ ~loading
  /\ callAPI(FALSE)
  /\ UNCHANGED serverVars

\* The button 'Clear', rendered when result or error is set
handleClear ==
  /\ result # Null \/ error # Null
  /\ secretToken' = ""
  /\ result' = Null
  /\ error' = Null
  /\ UNCHANGED <<loading, inFlight, started>>
  /\ UNCHANGED serverVars

\* The fetch of a waiting call settles and callAPI goes on.
FetchSettles ==
  /\ \E i \in 1..Len(inFlight) :
       \E r \in Responses(inFlight[i].dryRun) : callAPIResume(i, r)
  /\ UNCHANGED serverVars

NextUi == onChange \/ handleDryRun \/ handleGenerate \/ handleClear \/ FetchSettles

\* The component is mounted; the spreadsheet it talks to is not looked at.
InitUi ==
  /\ metaSheet = Sheet(defaultMeta)
  /\ questionsSheet = Sheet(<<>>)
  /\ respondentSheet = Sheet(<<>>)
  /\ scriptSecret = Secret
  /\ formCount = 0
  /\ lastCall = NoCall
  /\ running = NoExecutions
  /\ Mounted

SpecUi == InitUi /\ [][NextUi]_vars

\* Every fetch settles: it resolves or rejects.
SpecUiFair == SpecUi /\ WF_vars(FetchSettles)

\* ===================================================================== claims
\* What the claims say of a sheet row, read off the cells.
BlankText(r) == IsBlankCell(r.QuestionText)

UpperType(r) == ToUpperCase(ToString(OrElse(r.Type, "")))

HasOption(r) == \E n \in 1..NumOptionColumns : ~IsBlankCell(r.Options[n])

InvalidTypeRow(r) ==
  ~BlankText(r) /\ UpperType(r) \notin {"MCQ", "CHECKBOX", "DROPDOWN", "TEXT", "PARAGRAPH"}

NoOptionRow(r) ==
  ~BlankText(r) /\ UpperType(r) \in {"MCQ", "CHECKBOX", "DROPDOWN"} /\ ~HasOption(r)

AcceptedRow(r) == ~BlankText(r) /\ ~InvalidTypeRow(r) /\ ~NoOptionRow(r)

\* The last run was a doPost that built a form from the validated questions.
ApiBuilt == lastCall.handler = "doPost" /\ lastCall.built

\* The last run was a doPost that answered with the stats of the Questions sheet.
ApiStats ==
  lastCall.handler = "doPost" /\ lastCall.outcome \in {"noQuestions", "dryRun", "created"}

\* The last run sorted its question list (questions.sort returned).
Sorted == lastCall.outcome \in {"dryRun", "created", "alertSuccess"}

IsQuestionItem(item) == item.src[1] = "question"

IsRespondentItem(item) == item.src[1] = "respondent"

\* The places of the page breaks that buildForm adds for question sections.
SectionBreakPlaces(form) ==
  {p \in 1..Len(form) : /\ form[p].kind = "PAGE_BREAK"
                        /\ Len(form[p].helpText) = 2
                        /\ form[p].helpText[1] = "Section: "}

NonBlankSections(qs) == {qs[i].section : i \in 1..Len(qs)} \ {""}

FirstOfSection(qs, S) ==
  CHOOSE i \in 1..Len(qs) :
    qs[i].section = S /\ \A j \in 1..(i - 1) : qs[j].section # S

\* C1: in a form built from the sorted accepted questions, every distinct
\* non-blank section has exactly one section page break, placed right before
\* the item of the first question of that section, and there is no other
\* section page break.
C1_SectionBreakOncePerSection ==
  ApiBuilt =>
    LET form == lastCall.form
        qs == lastCall.questions
        places == SectionBreakPlaces(form)
    IN /\ \A S \in NonBlankSections(qs) :
            \E p \in places :
              /\ form[p].title = S
              /\ \A p2 \in places : form[p2].title = S => p2 = p
              /\ p < Len(form)
              /\ form[p + 1].src = <<"question", qs[FirstOfSection(qs, S)].row>>
       /\ \A p \in places : form[p].title \in NonBlankSections(qs)
       /\ Cardinality(places) = Cardinality(NonBlankSections(qs))

\* C1 witness: sorted sections [A, A, B] gave exactly two section page breaks.
C1_Witness ==
  /\ ApiBuilt
  /\ Len(lastCall.questions) = 3
  /\ lastCall.questions[1].section = "A"
  /\ lastCall.questions[2].section = "A"
  /\ lastCall.questions[3].section = "B"
  /\ Cardinality(SectionBreakPlaces(lastCall.form)) = 2

\* C2: respondent items and their two page breaks come before every question
\* item, and the question items are the accepted rows of the sheet, one item
\* each, in the order of the sorted question list.
C2_ItemOrderIsInstructionStream ==
  ApiBuilt =>
    LET form == lastCall.form
        qs == lastCall.questions
        rows == questionsSheet.rows
        qItems == SelectSeq(form, IsQuestionItem)
    IN /\ \A p, q \in 1..Len(form) :
            /\ IsQuestionItem(form[q])
            /\ \/ IsRespondentItem(form[p])
               \/ form[p] = RespondentInformationBreak
               \/ form[p] = SurveyQuestionsBreak
            => p < q
       /\ Len(qItems) = Len(qs)
       /\ \A i \in 1..Len(qs) :
            /\ qItems[i].src = <<"question", qs[i].row>>
            /\ qItems[i].title = qs[i].questionText
       /\ {qs[i].row : i \in 1..Len(qs)} = {i \in 1..Len(rows) : AcceptedRow(rows[i])}
       /\ \A i, j \in 1..Len(qs) : qs[i].row = qs[j].row => i = j

\* C2 witness: a form with a respondent item and two question items whose
\* sorted order differs from their row order.
C2_Witness ==
  /\ ApiBuilt
  /\ \E p \in 1..Len(lastCall.form) : IsRespondentItem(lastCall.form[p])
  /\ Len(lastCall.questions) = 2
  /\ lastCall.questions[1].row > lastCall.questions[2].row

SectionRank(q) == CollationRank(ToString(q.section))

\* C3: in a sorted question list, blank sections come last, non-blank
\* sections are grouped in alphabetical order, orders do not decrease within
\* a section, and equal section and order keep the sheet-row order.
C3_SortedQuestionOrder ==
  Sorted =>
    LET qs == lastCall.questions IN
    \A i, j \in 1..Len(qs) :
      i < j =>
        /\ qs[i].section = "" => qs[j].section = ""
        /\ (qs[i].section # "" /\ qs[j].section # "" /\ qs[i].section # qs[j].section)
             => SectionRank(qs[i]) < SectionRank(qs[j])
        /\ qs[i].section = qs[j].section => qs[i].order <= qs[j].order
        /\ (qs[i].section = qs[j].section /\ qs[i].order = qs[j].order)
             => qs[i].row < qs[j].row

\* C3 witness: a blank-section question of lower order stands behind a
\* sectioned one, and two questions tie on section and order.
C3_Witness ==
  /\ Sorted
  /\ Len(lastCall.questions) = 3
  /\ lastCall.questions[1].section = "A"
  /\ lastCall.questions[2].section = "A"
  /\ lastCall.questions[1].order = lastCall.questions[2].order
  /\ lastCall.questions[3].section = ""
  /\ lastCall.questions[3].order < lastCall.questions[1].order
  /\ lastCall.questions[3].row < lastCall.questions[1].row

\* The last run was a doPost that scanned the rows of the Questions sheet.
ApiScanned == lastCall.handler = "doPost" /\ lastCall.outcome \in {"dryRun", "created"}

\* The scan of readQuestionsWithValidation after the first n rows of the sheet.
ScanOf(rows, n) == ValidationScan(SubSeq(rows, 1, n), 1, EmptyScan)

InvalidTypeMessage(r) ==
  <<"Question \"", ToString(r.QuestionText), "\" has invalid type: ", UpperType(r)>>

NoOptionsMessage(r) ==
  <<"Question \"", ToString(r.QuestionText), "\" has type ", UpperType(r),
    " but no options">>

\* How often msg stands in errors.
Occurrences(errors, msg) == Cardinality({p \in 1..Len(errors) : errors[p] = msg})

\* C4: a row with question text whose upper-cased Type is none of the five
\* types (a blank Type too) is not in the question list or the built form,
\* raises skippedCount by exactly one and adds exactly one error
\* 'Question "<text>" has invalid type: <type>'.
C4_InvalidTypeRowRejected ==
  ApiScanned =>
    LET rows == questionsSheet.rows
        errors == lastCall.stats.errors
    IN \A i \in 1..Len(rows) :
         InvalidTypeRow(rows[i]) =>
           LET pre == ScanOf(rows, i - 1)
               post == ScanOf(rows, i)
               msg == InvalidTypeMessage(rows[i])
           IN /\ post.stats.skippedCount = pre.stats.skippedCount + 1
              /\ post.stats.errors = Append(pre.stats.errors, msg)
              /\ post.questions = pre.questions
              /\ \A k \in 1..Len(lastCall.questions) : lastCall.questions[k].row # i
              /\ \A p \in 1..Len(lastCall.form) : lastCall.form[p].src # <<"question", i>>
              /\ Occurrences(errors, msg)
                   = Cardinality({j \in 1..Len(rows) :
                                    /\ InvalidTypeRow(rows[j])
                                    /\ InvalidTypeMessage(rows[j]) = msg})

\* C4 witness: a form was built from a sheet that holds a row of blank Type
\* and a row of an unknown Type next to an accepted row.
C4_Witness ==
  /\ ApiBuilt
  /\ Len(lastCall.questions) >= 1
  /\ \E i, j \in 1..Len(questionsSheet.rows) :
       /\ InvalidTypeRow(questionsSheet.rows[i]) /\ UpperType(questionsSheet.rows[i]) = ""
       /\ InvalidTypeRow(questionsSheet.rows[j]) /\ UpperType(questionsSheet.rows[j]) = "FOO"
  /\ Len(lastCall.stats.errors) = 2

\* C5: a row with question text, a choice type and no filled option cell is
\* not pushed, raises skippedCount by exactly one and adds exactly one error
\* 'Question "<text>" has type <type> but no options', and no other error.
C5_NoOptionsRowRejected ==
  ApiScanned =>
    LET rows == questionsSheet.rows
        errors == lastCall.stats.errors
    IN \A i \in 1..Len(rows) :
         NoOptionRow(rows[i]) =>
           LET pre == ScanOf(rows, i - 1)
               post == ScanOf(rows, i)
               msg == NoOptionsMessage(rows[i])
           IN /\ post.stats.skippedCount = pre.stats.skippedCount + 1
              /\ post.stats.errors = Append(pre.stats.errors, msg)
              /\ post.questions = pre.questions
              /\ \A k \in 1..Len(lastCall.questions) : lastCall.questions[k].row # i
              /\ lastCall.stats.questionsCount
                   = Cardinality({j \in 1..Len(rows) : AcceptedRow(rows[j])})
              /\ Occurrences(errors, msg)
                   = Cardinality({j \in 1..Len(rows) :
                                    /\ NoOptionRow(rows[j])
                                    /\ NoOptionsMessage(rows[j]) = msg})

\* C5 witness: the stats of a sheet with an option-less MCQ row and an
\* accepted row hold the one error of that row.
C5_Witness ==
  /\ ApiScanned
  /\ \E i \in 1..Len(questionsSheet.rows) :
       /\ NoOptionRow(questionsSheet.rows[i])
       /\ lastCall.stats.errors = <<NoOptionsMessage(questionsSheet.rows[i])>>
  /\ lastCall.stats.questionsCount >= 1
  /\ lastCall.stats.skippedCount = 1

ChoiceKinds == {"MULTIPLE_CHOICE", "CHECKBOX", "LIST"}

\* C6: in a built form every item of a choice kind has at least one choice,
\* and every accepted question or respondent field of type TEXT or PARAGRAPH
\* has no options, whatever its option cells hold.
C6_ChoicesOnlyOnChoiceKinds ==
  lastCall.built =>
    LET form == lastCall.form
        qs == lastCall.questions
        fields == lastCall.respondentDetails
    IN /\ \A p \in 1..Len(form) :
            form[p].kind \in ChoiceKinds => Len(form[p].choices) >= 1
       /\ \A k \in 1..Len(qs) :
            qs[k].type \in {"TEXT", "PARAGRAPH"} => qs[k].options = <<>>
       /\ \A k \in 1..Len(fields) :
            fields[k].type \in {"TEXT", "PARAGRAPH"} => fields[k].options = <<>>

\* C6 witness: a form with a respondent dropdown that has choices, built from
\* sheets with an option-less DROPDOWN field and a PARAGRAPH question whose
\* option cells are filled.
C6_Witness ==
  /\ lastCall.built
  /\ \E p \in 1..Len(lastCall.form) :
       /\ IsRespondentItem(lastCall.form[p])
       /\ lastCall.form[p].kind = "LIST"
       /\ Len(lastCall.form[p].choices) >= 1
  /\ \E i \in 1..Len(respondentSheet.rows) :
       /\ ToUpperCase(ToString(respondentSheet.rows[i].Type)) = "DROPDOWN"
       /\ respondentSheet.rows[i].Options = NoOptions
  /\ \E k \in 1..Len(lastCall.questions) :
       /\ lastCall.questions[k].type = "PARAGRAPH"
       /\ HasOption(questionsSheet.rows[lastCall.questions[k].row])
       /\ lastCall.questions[k].options = <<>>

\* C7: sectionsCount of the returned stats is the number of distinct non-blank
\* sections among the accepted questions; sections that stand only on rejected
\* or blank rows are not counted.
C7_SectionsCountOfAccepted ==
  ApiStats =>
    lastCall.stats.sectionsCount
      = Cardinality({questionsSheet.rows[i].Section :
                       i \in {j \in 1..Len(questionsSheet.rows) :
                                AcceptedRow(questionsSheet.rows[j])}} \ {""})

BlankRows(rows) == {i \in 1..Len(rows) : BlankText(rows[i])}

RejectedRows(rows) == {i \in 1..Len(rows) : InvalidTypeRow(rows[i]) \/ NoOptionRow(rows[i])}

\* C8: for a Questions sheet with at least one data row, questionsCount is
\* the number of accepted rows, skippedCount the number of blank or rejected
\* rows, and the two add up to the number of rows scanned.
C8_CountsPartitionRows ==
  (ApiStats /\ Len(questionsSheet.rows) >= 1) =>
    LET rows == questionsSheet.rows
        stats == lastCall.stats
    IN /\ stats.questionsCount
            = Cardinality({i \in 1..Len(rows) : AcceptedRow(rows[i])})
       /\ stats.skippedCount
            = Cardinality(BlankRows(rows) \cup RejectedRows(rows))
       /\ stats.questionsCount + stats.skippedCount = Len(rows)
       /\ stats.questionsCount = Len(lastCall.questions)

\* C8 witness: a sheet with an accepted, a blank and a rejected row was scanned.
C8_Witness ==
  /\ ApiStats
  /\ Len(questionsSheet.rows) = 3
  /\ lastCall.stats.questionsCount = 1
  /\ BlankRows(questionsSheet.rows) # {}
  /\ RejectedRows(questionsSheet.rows) # {}

\* The message the claims give a rejected row.
RowMessage(r) == IF InvalidTypeRow(r) THEN InvalidTypeMessage(r) ELSE NoOptionsMessage(r)

\* The messages of the rejected rows from row i on, in sheet-row order.
RECURSIVE RowMessages(_, _)
RowMessages(rows, i) ==
  IF i > Len(rows) THEN <<>>
  ELSE IF InvalidTypeRow(rows[i]) \/ NoOptionRow(rows[i])
    THEN <<RowMessage(rows[i])>> \o RowMessages(rows, i + 1)
    ELSE RowMessages(rows, i + 1)

ErrorsArePerRejectedRow ==
  LET rows == questionsSheet.rows
      stats == lastCall.stats
  IN /\ stats.errors = RowMessages(rows, 1)
     /\ Len(stats.errors) = stats.skippedCount - Cardinality(BlankRows(rows))

\* C9 as stated: in every returned stats object errors holds one message per
\* rejected row with question text and none for a blank row, in sheet-row
\* order, so that its length is skippedCount minus the number of blank rows.
C9_ErrorsInEveryStats == ApiStats => ErrorsArePerRejectedRow

\* C9: in the stats returned for a Questions sheet with at least one data
\* row, errors holds one message per rejected row with question text and none
\* for a blank row, in sheet-row order, so that its length is skippedCount
\* minus the number of blank rows.
C9_ErrorsPerRejectedRow ==
  (ApiStats /\ Len(questionsSheet.rows) >= 1) => ErrorsArePerRejectedRow

\* C9 witness: two rejected rows with different messages and a blank row; the
\* sorted order of the sections of the two differs from their row order.
C9_Witness ==
  /\ ApiStats
  /\ Len(questionsSheet.rows) = 3
  /\ Len(lastCall.stats.errors) = 2
  /\ lastCall.stats.errors[1] # lastCall.stats.errors[2]
  /\ lastCall.stats.skippedCount = 3
  /\ \E i, j \in RejectedRows(questionsSheet.rows) :
       /\ i < j
       /\ questionsSheet.rows[i].Section = "B"
       /\ questionsSheet.rows[j].Section = "A"

\* The rows of the RespondentDetails sheet the claims call accepted.
AcceptedFieldRows(rows) ==
  {i \in 1..Len(rows) :
     /\ ~IsBlankCell(rows[i].FieldName)
     /\ ToUpperCase(ToString(OrElse(rows[i].Type, "TEXT"))) \in {"TEXT", "PARAGRAPH", "DROPDOWN"}
     /\ ToUpperCase(ToString(OrElse(rows[i].Type, "TEXT"))) = "DROPDOWN"
          => \E n \in 1..NumOptionColumns : ~IsBlankCell(rows[i].Options[n])}

Places(form, item) == {p \in 1..Len(form) : form[p] = item}

\* C10: a built form holds the 'Respondent Information' and the 'Survey
\* Questions' page break exactly when some respondent field is accepted (name
\* not blank, type TEXT, PARAGRAPH or DROPDOWN, a DROPDOWN with an option);
\* then one item per accepted field stands between the two, and with no
\* accepted field neither page break is in the form.
C10_RespondentBreaksIffAcceptedField ==
  lastCall.built =>
    LET form == lastCall.form
        accepted == AcceptedFieldRows(respondentSheet.rows)
        first == Places(form, RespondentInformationBreak)
        second == Places(form, SurveyQuestionsBreak)
    IN IF accepted = {} THEN first = {} /\ second = {}
       ELSE /\ Cardinality(first) = 1
            /\ Cardinality(second) = 1
            /\ \A a \in first, b \in second :
                 /\ a < b
                 /\ {form[p].src : p \in (a + 1)..(b - 1)}
                      = {<<"respondent", i>> : i \in accepted}
                 /\ b - a - 1 = Cardinality(accepted)

\* The sheet rows of the respondent items of a form, in the order of the items.
RECURSIVE RespondentItemRows(_, _)
RespondentItemRows(form, p) ==
  IF p > Len(form) THEN <<>>
  ELSE (IF IsRespondentItem(form[p]) THEN <<form[p].src[2]>> ELSE <<>>)
       \o RespondentItemRows(form, p + 1)

\* The numeric Order of a RespondentDetails row, as the claims read the cell.
OrderValue(r) ==
  CASE r.Order = "1" -> 1
    [] r.Order = "2" -> 2
    [] r.Order = "3" -> 3
    [] r.Order = "4" -> 4
    [] OTHER -> 0

\* C11: the respondent items of a built form stand in non-decreasing order of
\* the Order value of their rows, and two fields of equal Order stand in
\* sheet-row order.
C11_RespondentItemsByOrder ==
  lastCall.built =>
    LET rows == respondentSheet.rows
        emitted == RespondentItemRows(lastCall.form, 1)
    IN \A i, j \in 1..Len(emitted) :
         i < j =>
           /\ OrderValue(rows[emitted[i]]) <= OrderValue(rows[emitted[j]])
           /\ OrderValue(rows[emitted[i]]) = OrderValue(rows[emitted[j]])
                => emitted[i] < emitted[j]

\* C11 witness: the item of the second row stands before the item of the
\* first row, whose Order is higher.
C11_Witness ==
  /\ lastCall.built
  /\ RespondentItemRows(lastCall.form, 1) = <<2, 1>>
  /\ OrderValue(respondentSheet.rows[1]) > OrderValue(respondentSheet.rows[2])

\* The values the FormMeta sheet holds for a key.
MetaValues(sheet, key) ==
  {sheet.rows[i].value : i \in {j \in 1..Len(sheet.rows) : sheet.rows[j].key = key}}

\* C12: a generateForm request with dryRun true or 'true' makes no form and
\* writes no form data: no form is built, the answer carries no form data,
\* and an existing FormMeta sheet is after the request what it was before it
\* (a missing one is inserted by ensureSheetsExist with its default rows,
\* which name no form).
C12_DryRunWritesNothing ==
  [][(lastCall'.handler = "doPost" /\ lastCall'.dryRun) =>
       /\ formCount' = formCount
       /\ ~lastCall'.built
       /\ lastCall'.form = <<>>
       /\ lastCall'.formData = NoFormData
       /\ metaSheet.exists => metaSheet' = metaSheet
       /\ ~metaSheet.exists => metaSheet' = Sheet(defaultMeta)]_vars

\* C12 witness: a dry run answered with the stats after a form had been made;
\* FormMeta still holds the data of that form.
C12_Witness ==
  /\ lastCall.handler = "doPost"
  /\ lastCall.dryRun
  /\ lastCall.outcome = "dryRun"
  /\ lastCall.stats.questionsCount >= 1
  /\ formCount = 1
  /\ MetaValues(metaSheet, "FormId") = {FormIds[1]}
  /\ MetaValues(metaSheet, "Version") = {"2"}

\* The answers of a doPost that reached handleGenerateForm.
HandledOutcomes == {"failed", "noQuestions", "dryRun", "created"}

NothingTouched ==
  UNCHANGED <<metaSheet, respondentSheet, questionsSheet, scriptSecret, formCount>>

\* What the claim says of the step that answers requestData.
SecretGuards(requestData) ==
  IF scriptSecret = ""
    THEN lastCall'.outcome = "configError" /\ NothingTouched
  ELSE IF requestData.secret = "" \/ requestData.secret # scriptSecret
    THEN lastCall'.outcome = "unauthorized" /\ NothingTouched
  ELSE lastCall'.outcome \in HandledOutcomes

ApiHandled == lastCall.handler = "doPost" /\ lastCall.outcome \in HandledOutcomes

\* C14: handleGenerateForm answers with the failure 'No questions found in
\* Questions sheet' exactly when no row was accepted and no row was skipped;
\* with a row accepted or skipped it answers ok with the stats and their
\* warnings, in a dry run without making a form.
C14_FailureIffNothingScanned ==
  ApiHandled =>
    LET rows == questionsSheet.rows
        accepted == {i \in 1..Len(rows) : AcceptedRow(rows[i])}
        skipped == BlankRows(rows) \cup RejectedRows(rows)
        nothing == accepted = {} /\ skipped = {}
    IN /\ lastCall.outcome = "noQuestions" <=> nothing
       /\ ~nothing =>
            /\ lastCall.outcome \in {"dryRun", "created"}
            /\ lastCall.stats.questionsCount = Cardinality(accepted)
            /\ lastCall.stats.skippedCount = Cardinality(skipped)
            /\ Len(lastCall.stats.errors) = Cardinality(RejectedRows(rows))
            /\ lastCall.dryRun => (lastCall.outcome = "dryRun" /\ ~lastCall.built)

\* C15: no question row, whatever its cells hold, makes a request fail: every
\* row is accepted or skipped, the others are still read and sorted, and the
\* answer is a result with stats; the only failure that the rows cause is
\* the one for a sheet without rows.
C15_NoRowFailsRequest ==
  ApiHandled =>
    LET rows == questionsSheet.rows
        qs == lastCall.questions
    IN /\ lastCall.outcome # "failed"
       /\ lastCall.outcome = "noQuestions" => Len(rows) = 0
       /\ lastCall.outcome \in {"dryRun", "created"} =>
            /\ lastCall.stats.questionsCount + lastCall.stats.skippedCount = Len(rows)
            /\ {qs[k].row : k \in 1..Len(qs)}
                 = {i \in 1..Len(rows) : AcceptedRow(rows[i])}

\* The number a Version value stands for, -1 when it stands for none.
NumberRead(v) ==
  CASE v = "0" -> 0 [] v = "1" -> 1 [] v = "2" -> 2 [] v = "3" -> 3
    [] v = "4" -> 4 [] v = "5" -> 5 [] v = "6" -> 6 [] v = "7" -> 7
    [] v = "8" -> 8 [] v = "9" -> 9 [] v = "10" -> 10 [] v = "11" -> 11
    [] v = "12" -> 12 [] v = NumberCell -> 7 [] OTHER -> -1

C17_MetaHoldsCreatedForm ==
  (lastCall.handler = "doPost" /\ lastCall.outcome = "created") =>
    /\ MetaValues(metaSheet, "FormId") = {lastCall.formData.formId}
    /\ MetaValues(metaSheet, "FormEditUrl") = {lastCall.formData.editUrl}
    /\ MetaValues(metaSheet, "FormPublishedUrl") = {lastCall.formData.publishedUrl}
    /\ MetaValues(metaSheet, "Version") = {lastCall.formData.version}
    /\ MetaValues(metaSheet, "CreatedAt") = {lastCall.formData.createdAt}
    /\ lastCall.formData.formId = FormIds[formCount]

\* A row whose key readMeta recognizes.
HasRecognizedKey(r) == r.key \in {"FormTitle", "FormDescription", "Version"}

\* C18: for every content of the FormMeta sheet readMeta gives a non-empty
\* formTitle and formDescription: the default when the row is missing or its
\* value is empty, the value of the row otherwise; the rows with other keys
\* do not change the result.
C18_MetaTitleAndDescriptionDefault ==
  metaSheet.exists =>
    LET meta == readMeta(metaSheet)
        titles == MetaValues(metaSheet, "FormTitle")
        descriptions == MetaValues(metaSheet, "FormDescription")
    IN /\ meta.formTitle # ""
       /\ meta.formDescription # ""
       /\ titles \subseteq {""} => meta.formTitle = "HBMP Survey Form"
       /\ descriptions \subseteq {""} =>
            meta.formDescription = "Survey form generated from Question Bank"
       /\ \A v \in titles \ {""} : meta.formTitle = v
       /\ \A v \in descriptions \ {""} : meta.formDescription = v
       /\ readMeta(Sheet(SelectSeq(metaSheet.rows, HasRecognizedKey))) = meta

\* C18 witness: a form was made from a FormMeta sheet with an empty FormTitle
\* value, no FormDescription row and a row with an unknown key.
C18_Witness ==
  /\ lastCall.built
  /\ MetaValues(metaSheet, "FormTitle") = {""}
  /\ MetaValues(metaSheet, "FormDescription") = {}
  /\ MetaValues(metaSheet, "formtitle") = {"Other"}
  /\ readMeta(metaSheet).formTitle = "HBMP Survey Form"

\* The text of an option cell as the sheet shows it, trimmed.
CellText(c) ==
  CASE c = ZeroCell -> "0"
    [] c = NumberCell -> "7"
    [] c = " " -> ""
    [] c = " b " -> "b"
    [] OTHER -> c

\* The non-blank cells among Option n .. Option5, trimmed, in column order.
RECURSIVE FilledOptions(_, _)
FilledOptions(cells, n) ==
  IF n > NumOptionColumns THEN <<>>
  ELSE (IF CellText(cells[n]) # "" THEN <<CellText(cells[n])>> ELSE <<>>)
       \o FilledOptions(cells, n + 1)

\* C19: the options of every question and respondent field of a choice type
\* are the non-blank cells of Option1..Option5 of its row, trimmed, in
\* column order: none dropped, no blank one included.
C19_OptionsAreFilledCells ==
  /\ \A k \in 1..Len(lastCall.questions) :
       LET q == lastCall.questions[k] IN
       q.type \in {"MCQ", "CHECKBOX", "DROPDOWN"} =>
         q.options = FilledOptions(questionsSheet.rows[q.row].Options, 1)
  /\ \A k \in 1..Len(lastCall.respondentDetails) :
       LET field == lastCall.respondentDetails[k] IN
       field.type = "DROPDOWN" =>
         field.options = FilledOptions(respondentSheet.rows[field.row].Options, 1)

\* The Required cell equals 'TRUE' as a string, whatever the case of its
\* letters.
SaysTrue(cell) ==
  cell \in {"TRUE", "true", "True", "tRUE", "TRue", "TRUe", "truE", "trUE"}

\* The sheet row an item was added for.
ItemRow(item) ==
  IF IsQuestionItem(item) THEN questionsSheet.rows[item.src[2]]
  ELSE respondentSheet.rows[item.src[2]]

\* C20: the required flag of every accepted question and respondent field
\* is true exactly when the Required cell of its row equals 'TRUE' as a
\* string, case-insensitively, and an item of the form is marked required
\* exactly when the flag of its record is true.
C20_RequiredIffCellSaysTrue ==
  /\ \A k \in 1..Len(lastCall.questions) :
       lastCall.questions[k].required
         <=> SaysTrue(questionsSheet.rows[lastCall.questions[k].row].Required)
  /\ \A k \in 1..Len(lastCall.respondentDetails) :
       lastCall.respondentDetails[k].required
         <=> SaysTrue(respondentSheet.rows[lastCall.respondentDetails[k].row].Required)
  /\ \A p \in 1..Len(lastCall.form) :
       (IsQuestionItem(lastCall.form[p]) \/ IsRespondentItem(lastCall.form[p])) =>
         (lastCall.form[p].required <=> SaysTrue(ItemRow(lastCall.form[p]).Required))

\* C20 witness: a form with a required item whose Required cell is 'true' in
\* lower case and an item that is not required whose cell is 'yes'.
C20_Witness ==
  /\ lastCall.built
  /\ \E p, q \in 1..Len(lastCall.form) :
       /\ lastCall.form[p].src[1] \in {"question", "respondent"}
       /\ lastCall.form[p].required
       /\ ItemRow(lastCall.form[p]).Required = "true"
       /\ IsQuestionItem(lastCall.form[q])
       /\ ~lastCall.form[q].required
       /\ ItemRow(lastCall.form[q]).Required = "yes"

\* The stats that the claims give the rows of a Questions sheet: the sections
\* of the rows with question text, the accepted and the skipped rows, and
\* the messages of the rejected rows.
QuestionRowStats(rows) ==
  IF Len(rows) = 0
    THEN [sectionsCount |-> 0, questionsCount |-> 0, skippedCount |-> 0,
          errors |-> <<<<"No question rows found in Questions sheet">>>>]
  ELSE [sectionsCount |->
          Cardinality({rows[i].Section :
                         i \in {j \in 1..Len(rows) : ~BlankText(rows[j])}} \ {""}),
        questionsCount |-> Cardinality({i \in 1..Len(rows) : AcceptedRow(rows[i])}),
        skippedCount |-> Cardinality(BlankRows(rows) \cup RejectedRows(rows)),
        errors |-> RowMessages(rows, 1)]

\* The respondent rows that give no item: a blank name, a type that is not
\* TEXT, PARAGRAPH or DROPDOWN, or a DROPDOWN without options.
UnacceptedFieldRows(rows) == (1..Len(rows)) \ AcceptedFieldRows(rows)

\* C21: the sectionsCount, questionsCount, skippedCount and errors that a
\* request returns are a function of the rows of the Questions sheet alone:
\* whatever the RespondentDetails sheet holds (fields of unknown type and
\* DROPDOWN fields without options too), two requests on equal Questions
\* sheets return equal stats.
C21_StatsDependOnQuestionRowsOnly ==
  ApiStats => lastCall.stats = QuestionRowStats(questionsSheet.rows)

\* C21 witness: stats with an accepted and a rejected question were returned
\* for a spreadsheet whose RespondentDetails sheet holds a row that gives no
\* item.
C21_Witness ==
  /\ ApiStats
  /\ lastCall.stats.questionsCount = 1
  /\ Len(lastCall.stats.errors) = 1
  /\ UnacceptedFieldRows(respondentSheet.rows) # {}
  /\ \E i \in 1..Len(respondentSheet.rows) : ~IsBlankCell(respondentSheet.rows[i].FieldName)

IsPageBreak(item) == item.kind = "PAGE_BREAK"

HasSection(q) == q.section # ""

\* C22: a question with a blank section adds no page break, whatever stands
\* before it: every section page break is titled by a non-blank section of
\* a question, and the page breaks of the form are those of the form built
\* without the blank-section questions.  With no respondent field and only
\* blank-section questions the form holds no page break, just one item per
\* question; the one TEXT question 'Age?' with required true gives exactly
\* one required text item.
C22_BlankSectionNoPageBreak ==
  lastCall.built =>
    LET form == lastCall.form
        qs == lastCall.questions
        fields == lastCall.respondentDetails
    IN /\ \A p \in SectionBreakPlaces(form) : form[p].title \in NonBlankSections(qs)
       /\ SelectSeq(form, IsPageBreak)
            = SelectSeq(buildForm(fields, SelectSeq(qs, HasSection)), IsPageBreak)
       /\ (fields = <<>> /\ NonBlankSections(qs) = {}) =>
            /\ \A p \in 1..Len(form) : ~IsPageBreak(form[p])
            /\ Len(form) = Len(qs)
            /\ \A k \in 1..Len(qs) : form[k].src = <<"question", qs[k].row>>
       /\ (fields = <<>> /\ Len(qs) = 1 /\ qs[1].questionText = "Age?") =>
            /\ Len(form) = 1
            /\ form[1].kind = "TEXT"
            /\ form[1].title = "Age?"
            /\ form[1].required
            /\ form[1].choices = <<>>

\* C22 witness: a form built from a sectioned question followed by two
\* blank-section questions holds one page break, before the first item.
C22_Witness ==
  /\ lastCall.built
  /\ Len(lastCall.questions) = 3
  /\ lastCall.questions[1].section = "A"
  /\ lastCall.questions[2].section = ""
  /\ lastCall.questions[3].section = ""
  /\ Len(lastCall.form) = 4
  /\ {p \in 1..4 : IsPageBreak(lastCall.form[p])} = {1}

\* C23: a row with a blank question text is skipped before every other rule:
\* it raises skippedCount by one and changes nothing else of the scan (no
\* error, also for an invalid Type or missing options; no section; no
\* question), so the returned errors are those of the rejected rows with
\* text and sectionsCount counts the sections of the rows with text only.
C23_BlankTextSkippedFirst ==
  ApiScanned =>
    LET rows == questionsSheet.rows
        stats == lastCall.stats
    IN /\ \A i \in BlankRows(rows) :
            LET pre == ScanOf(rows, i - 1)
                post == ScanOf(rows, i)
            IN /\ post.stats.skippedCount = pre.stats.skippedCount + 1
               /\ post.stats.errors = pre.stats.errors
               /\ post.sections = pre.sections
               /\ post.questions = pre.questions
               /\ \A k \in 1..Len(lastCall.questions) : lastCall.questions[k].row # i
       /\ Len(stats.errors) = Cardinality(RejectedRows(rows))
       /\ stats.skippedCount = Cardinality(BlankRows(rows)) + Len(stats.errors)
       /\ stats.sectionsCount
            = Cardinality({rows[i].Section : i \in (1..Len(rows)) \ BlankRows(rows)} \ {""})

\* C23 witness: the stats of a sheet with an accepted row of section A, a
\* blank-text row of section B with an invalid Type and a blank-text row of
\* section B with a choice Type and no options: two rows skipped, no error,
\* one section.
C23_Witness ==
  /\ ApiScanned
  /\ Len(questionsSheet.rows) = 3
  /\ \E i, j \in BlankRows(questionsSheet.rows) :
       /\ UpperType(questionsSheet.rows[i]) = "FOO"
       /\ UpperType(questionsSheet.rows[j]) = "MCQ"
       /\ ~HasOption(questionsSheet.rows[j])
       /\ questionsSheet.rows[i].Section = "B"
       /\ questionsSheet.rows[j].Section = "B"
  /\ lastCall.stats.skippedCount = 2
  /\ lastCall.stats.errors = <<>>
  /\ lastCall.stats.sectionsCount = 1
  /\ lastCall.stats.questionsCount = 1

\* C24: sorting is idempotent: questions.sort with the comparator, applied
\* to a question list that it has sorted, returns (it does not throw) and
\* gives the same list in the same order, blank sections and ties on section
\* and order included.
C24_SortIdempotent ==
  Sorted =>
    /\ ~SortCanThrow(lastCall.questions)
    /\ QuestionSort(lastCall.questions) = lastCall.questions

\* The form each path builds from the sheets of the state.
MenuForm == buildForm(lastCall.respondentDetails, readQuestions(questionsSheet))

ApiForm ==
  buildForm(lastCall.respondentDetails,
            readQuestionsWithValidation(questionsSheet).questions)

\* C25: for the same sheets the menu path and the request path add the same
\* sequence of page breaks and items: a form built by one path is the form
\* the other path builds, and on the menu path a row that the validating
\* reader rejects adds no item and no section page break.
C25_MenuAndApiBuildSameForm ==
  lastCall.built =>
    LET rows == questionsSheet.rows
        form == lastCall.form
        acceptedSections ==
          {rows[i].Section : i \in {j \in 1..Len(rows) : AcceptedRow(rows[j])}}
    IN /\ lastCall.handler = "doPost" => form = MenuForm
       /\ lastCall.handler = "generateNewForm" =>
            /\ form = ApiForm
            /\ \A i \in RejectedRows(rows), p \in 1..Len(form) :
                 form[p].src # <<"question", i>>
            /\ \A p \in SectionBreakPlaces(form) : form[p].title \in acceptedSections

\* C26: a form is created only when at least one question was accepted: on
\* the menu path and on the request path, the question list of a run that
\* made a form is not empty.
C26_FormOnlyWithAcceptedQuestion ==
  lastCall.built => Len(lastCall.questions) >= 1

QuestionItemPlaces(form) == {p \in 1..Len(form) : IsQuestionItem(form[p])}

\* C27: for every generation by a request that made a form, sectionsCount
\* of the returned stats is the number of section page breaks added to the
\* form (the two respondent page breaks are not counted), and questionsCount
\* is the number of question items added.
C27_StatsCountFormItems ==
  (lastCall.handler = "doPost" /\ lastCall.outcome = "created") =>
    /\ lastCall.stats.sectionsCount = Cardinality(SectionBreakPlaces(lastCall.form))
    /\ lastCall.stats.questionsCount = Cardinality(QuestionItemPlaces(lastCall.form))

\* The executions that made a form, once every execution has answered.
AllDone == \A e \in Executions : running[e].pc = "done"

Created == {e \in Executions : running[e].outcome = "created"}

\* FormMeta holds the form data of execution e in its five rows.
MetaIsOf(e) ==
  /\ MetaValues(metaSheet, "FormId") = {running[e].formData.formId}
  /\ MetaValues(metaSheet, "FormEditUrl") = {running[e].formData.editUrl}
  /\ MetaValues(metaSheet, "FormPublishedUrl") = {running[e].formData.publishedUrl}
  /\ MetaValues(metaSheet, "Version") = {running[e].formData.version}
  /\ MetaValues(metaSheet, "CreatedAt") = {running[e].formData.createdAt}

\* C28: when two requests have run side by side and some form was made,
\* FormId, FormEditUrl, FormPublishedUrl, Version and CreatedAt of FormMeta
\* all come from one generation, and Version is the Version the sheet
\* started with plus the number of generations that made a form.
C28_ConcurrentMetaConsistent ==
  (AllDone /\ Created # {}) =>
    /\ \E e \in Created : MetaIsOf(e)
    /\ MetaValues(metaSheet, "Version")
         = {NumberToString(ParseInt(readMeta(Sheet(defaultMeta)).version)
                           + Cardinality(Created))}

\* C29: after every sequence of Validate, Generate, Clear, edits of the token
\* and outcomes of the API, error and result are not both set: the error
\* panel is never shown together with the result panel of an earlier call.
C29_ErrorAndResultExclusive == ~(error # Null /\ result # Null)

\* C30: loading is true exactly while a call waits for its fetch, and at
\* most one call waits at a time: while loading, Clear is not offered
\* (result and error are null), the token does not change and no call
\* starts.  Every call that starts sets loading back to false, whatever its
\* fetch comes to, and at that step exactly one of result and error is set.
C30_LoadingTracksOneCall ==
  /\ [](loading <=> Len(inFlight) >= 1)
  /\ [](Len(inFlight) <= 1)
  /\ [](loading => (result = Null /\ error = Null))
  /\ [][loading => (secretToken' = secretToken /\ started' = started)]_vars
  /\ [][(loading /\ ~loading') =>
         /\ inFlight' = <<>>
         /\ ~((result' # Null) <=> (error' # Null))]_vars
  /\ (loading ~> ~loading)

\* C30 witness: the second call has ended with an error, after a first call
\* that ended; nothing waits and loading is false.
C30_Witness ==
  /\ started = 2
  /\ ~loading
  /\ inFlight = <<>>
  /\ error # Null
  /\ error # Some("Please enter the secret token")
  /\ result = Null

====
